---- MODULE Spec2Model ----
(***************************************************************************)
(* A model of k_shortest_paths (src/k_shortest_paths.py): Yen's K shortest *)
(* loopless paths on a NetworkX 1.x graph that is pruned and restored in   *)
(* place.                                                                  *)
(*                                                                         *)
(* The graph is a function from the ordered node pairs that are edges to   *)
(* their weight; an undirected graph holds both orientations of each edge, *)
(* as Graph.adj does.  One call is a state machine over the positions      *)
(*   call -> (prune -> search -> restore)* -> pop -> ... -> done | raised  *)
(* The adjacency dictionaries are iterated in ascending node order, the    *)
(* slot order of small integer keys.                                       *)
(***************************************************************************)
EXTENDS Integers, Sequences, FiniteSets

\* ------------------------------------------------------------------ bounds
MaxWeight == 1
MaxK == 4

Nodes == 1..4
Weights == 0..MaxWeight
\* malformed input: a negative weight among the edge weights
BadWeights == (-1)..MaxWeight

\* the ordered pairs a caller's add_edge calls may use
EdgeSlots == {<<1, 2>>, <<1, 3>>, <<2, 3>>, <<3, 2>>, <<2, 4>>, <<3, 4>>}
ForwardSlots == {e \in EdgeSlots : e[1] < e[2]}

\* G: the caller's graph, pruned and restored in place; G0: that graph as it was
\* at the call.  dictView: whether in_edges_iter walks a live dictionary view
\* (Python 3) or a list copy of the items (Python 2).  pc: the position of the
\* call; exc: the exception a raised call ended in.  other: the local state of
\* a second call with the same arguments on the same graph object, suspended
\* while this one runs; interleaved: whether a call was ever suspended between
\* its pruning and its restoring (lines 83-121).
VARIABLES G, directed, dictView, source, target, k, G0,
          pc, exc, lengths, paths, c, B, G_original, i, j, edges_removed,
          other, interleaved

vars == <<G, directed, dictView, source, target, k, G0,
          pc, exc, lengths, paths, c, B, G_original, i, j, edges_removed,
          other, interleaved>>

\* ------------------------------------------------------------ graph store
Put(f, key, val) == [x \in DOMAIN f \cup {key} |-> IF x = key THEN val ELSE f[x]]

Drop(f, keys) == [x \in DOMAIN f \ keys |-> f[x]]

has_edge(g, u, v) == <<u, v>> \in DOMAIN g

remove_edge(g, dir, u, v) ==
  IF dir THEN Drop(g, {<<u, v>>}) ELSE Drop(g, {<<u, v>>, <<v, u>>})

\* G.add_edge(u, v) without the recorded attributes: the weight reads as 1
add_edge_unweighted(g, dir, u, v, w) ==
  IF dir THEN Put(g, <<u, v>>, 1) ELSE Put(Put(g, <<u, v>>, 1), <<v, u>>, 1)

add_edge(g, dir, u, v, w) ==
  IF dir THEN Put(g, <<u, v>>, w) ELSE Put(Put(g, <<u, v>>, w), <<v, u>>, w)

Succ(g, v) == {u \in Nodes : <<v, u>> \in DOMAIN g}

Pred(g, v) == {u \in Nodes : <<u, v>> \in DOMAIN g}

Symmetric(g) ==
  [e \in DOMAIN g \cup {<<x[2], x[1]>> : x \in DOMAIN g} |->
     IF e \in DOMAIN g THEN g[e] ELSE g[<<e[2], e[1]>>]]

\* iteration order of a dictionary keyed by nodes
RECURSIVE Ordered(_)
Ordered(S) ==
  IF S = {} THEN <<>>
  ELSE LET m == CHOOSE x \in S : \A y \in S : x <= y
       IN <<m>> \o Ordered(S \ {m})

Last(s) == s[Len(s)]

\* ------------------------------------------------- shortest path oracle
\* the relaxation loop over the neighbours us of the node v just finalised
RECURSIVE Relax(_, _, _, _)
Relax(st, v, us, g) ==
  IF us = <<>> \/ st.err THEN st
  ELSE LET u == Head(us)
           vu_dist == st.dist[v] + g[<<v, u>>]
       IN IF u \in DOMAIN st.dist
          THEN IF vu_dist < st.dist[u]
               THEN [st EXCEPT !.err = TRUE]
               ELSE Relax(st, v, Tail(us), g)
          ELSE IF u \notin DOMAIN st.seen \/ vu_dist < st.seen[u]
               THEN Relax([st EXCEPT !.seen = Put(@, u, vu_dist),
                                     !.fringe = @ \cup {<<vu_dist, st.c, u>>},
                                     !.c = @ + 1,
                                     !.paths = Put(@, u, Append(st.paths[v], u))],
                          v, Tail(us), g)
               ELSE Relax(st, v, Tail(us), g)

\* the fringe popped in push order, the distance ignored
FringeOldest(fr) == CHOOSE e \in fr : \A f \in fr : e[2] <= f[2]

FringeMin(fr) ==
  CHOOSE e \in fr : \A f \in fr : e[1] < f[1] \/ (e[1] = f[1] /\ e[2] <= f[2])

RECURSIVE DijkstraLoop(_, _, _)
DijkstraLoop(st, g, t) ==
  IF st.fringe = {} \/ st.err THEN st
  ELSE LET e == FringeMin(st.fringe)
           v == e[3]
           st1 == [st EXCEPT !.fringe = @ \ {e}]
       IN IF v \in DOMAIN st1.dist THEN DijkstraLoop(st1, g, t)
          ELSE LET st2 == [st1 EXCEPT !.dist = Put(@, v, e[1])]
               IN IF v = t THEN st2
                  ELSE DijkstraLoop(Relax(st2, v, Ordered(Succ(g, v)), g), g, t)

\* nx.single_source_dijkstra(G, s, t) of NetworkX 1.11: [dist, paths, err];
\* err is the ValueError raised on contradictory paths (negative weights)
single_source_dijkstra(g, s, t) ==
  IF s = t
  THEN [dist |-> Put(<<>>, s, 0), paths |-> Put(<<>>, s, <<s>>), err |-> FALSE]
  ELSE LET st == DijkstraLoop([dist |-> <<>>, seen |-> Put(<<>>, s, 0),
                               paths |-> Put(<<>>, s, <<s>>),
                               fringe |-> {<<0, 0, s>>}, c |-> 1, err |-> FALSE],
                              g, t)
       IN [dist |-> st.dist, paths |-> st.paths, err |-> st.err]

\* get_path_length with the loop one edge short: range(len(path) - 2)
RECURSIVE get_path_length_short(_, _)
get_path_length_short(g, path) ==
  IF Len(path) > 2
  THEN g[<<path[1], path[2]>>] + get_path_length_short(g, Tail(path))
  ELSE 0

\* ------------------------------------------------------- get_path_length
RECURSIVE get_path_length(_, _)
get_path_length(g, path) ==
  IF Len(path) > 1
  THEN g[<<path[1], path[2]>>] + get_path_length(g, Tail(path))
  ELSE 0

\* ------------------------------------------------------ deviation pruning
\* lines 79-86 looking at the last accepted path only, not at every accepted one
PrunePrefixLastOnly(acc, dir, cs, jj, root) ==
  LET c_path == cs[Len(cs)]
      u == c_path[jj + 1]
      v == c_path[jj + 2]
  IN IF has_edge(acc.g, u, v)
     THEN [acc EXCEPT !.g = remove_edge(@, dir, u, v),
                      !.removed = Append(@, <<u, v, acc.g[<<u, v>>]>>)]
     ELSE acc

\* lines 79-86: for every accepted path sharing the root, drop its next edge.
\* acc = [g, removed, exc]; jj is the 0-based spur index j
RECURSIVE PrunePrefix(_, _, _, _, _)
PrunePrefix(acc, dir, cs, jj, root) ==
  IF cs = <<>> \/ acc.exc # "none" THEN acc
  ELSE LET c_path == Head(cs)
       IN IF Len(c_path) > jj /\ root = SubSeq(c_path, 1, jj + 1)
          THEN IF Len(c_path) < jj + 2
               THEN [acc EXCEPT !.exc = "IndexError"]
               ELSE LET u == c_path[jj + 1]
                        v == c_path[jj + 2]
                    IN IF has_edge(acc.g, u, v)
                       THEN PrunePrefix(
                              [acc EXCEPT !.g = remove_edge(@, dir, u, v),
                                          !.removed = Append(@, <<u, v, acc.g[<<u, v>>]>>)],
                              dir, Tail(cs), jj, root)
                       ELSE PrunePrefix(acc, dir, Tail(cs), jj, root)
          ELSE PrunePrefix(acc, dir, Tail(cs), jj, root)

\* lines 96-104: the edges of edges_iter(node) are listed, then every one removed
RECURSIVE RemoveOut(_, _, _, _)
RemoveOut(acc, dir, node, vs) ==
  IF vs = <<>> THEN acc
  ELSE RemoveOut([acc EXCEPT !.g = remove_edge(@, dir, node, Head(vs)),
                             !.removed = Append(@, <<node, Head(vs), acc.g[<<node, Head(vs)>>]>>)],
                 dir, node, Tail(vs))

\* lines 107-111 left out: the in-edges of the root nodes stay
RemoveInSkipped(acc, view, node, us) == acc

\* lines 109-111: the edges of in_edges_iter(node) are removed while the iterator
\* is live.  Over a list copy of the dictionary (view = FALSE) every edge goes;
\* over a dictionary view (view = TRUE) the step after the first removal raises
\* RuntimeError: dictionary changed size during iteration.
RECURSIVE RemoveIn(_, _, _, _)
RemoveIn(acc, view, node, us) ==
  IF us = <<>> THEN acc
  ELSE LET acc1 == [acc EXCEPT !.g = remove_edge(@, TRUE, Head(us), node),
                               !.removed = Append(@, <<Head(us), node, acc.g[<<Head(us), node>>]>>)]
       IN IF view THEN [acc1 EXCEPT !.exc = "RuntimeError"]
          ELSE RemoveIn(acc1, view, node, Tail(us))

\* the pruning without lines 88-111: the root nodes keep their edges
PruneInteriorSkipped(acc, dir, view, ns) == acc

\* lines 88-111: every edge at the root nodes before the spur node goes
RECURSIVE PruneInterior(_, _, _, _)
PruneInterior(acc, dir, view, ns) ==
  IF ns = <<>> \/ acc.exc # "none" THEN acc
  ELSE LET node == Head(ns)
           a1 == RemoveOut(acc, dir, node, Ordered(Succ(acc.g, node)))
           a2 == IF dir THEN RemoveIn(a1, view, node, Ordered(Pred(a1.g, node)))
                 ELSE a1
       IN PruneInterior(a2, dir, view, Tail(ns))

\* lines 78-111 for the spur index jj of the last accepted path
Prune(g, dir, view, ps, jj) ==
  LET root_path == SubSeq(Last(ps), 1, jj + 1)
      a1 == PrunePrefix([g |-> g, removed |-> <<>>, exc |-> "none"],
                        dir, ps, jj, root_path)
  IN PruneInterior(a1, dir, view, SubSeq(root_path, 1, Len(root_path) - 1))

\* the restoring loop stopping one entry early
RECURSIVE RestoreEdgesButLast(_, _, _)
RestoreEdgesButLast(g, dir, es) ==
  IF Len(es) <= 1 THEN g
  ELSE RestoreEdgesButLast(add_edge(g, dir, Head(es)[1], Head(es)[2], Head(es)[3]),
                           dir, Tail(es))

\* lines 119-121
RECURSIVE RestoreEdges(_, _, _)
RestoreEdges(g, dir, es) ==
  IF es = <<>> THEN g
  ELSE RestoreEdges(add_edge(g, dir, Head(es)[1], Head(es)[2], Head(es)[3]),
                    dir, Tail(es))

\* --------------------------------------------------------- candidate heap
\* B.pop() in place of heappop(B): the candidate pushed last
HeapNewest(h) == CHOOSE e \in h : \A f \in h : f[2] <= e[2]

\* the heap ordered by (total_path_length, -id): of equal lengths the newest
HeapMinNewestFirst(h) ==
  CHOOSE e \in h : \A f \in h : e[1] < f[1] \/ (e[1] = f[1] /\ e[2] >= f[2])

\* heappop(B): the least (total_path_length, next(c), path)
HeapMin(h) ==
  CHOOSE e \in h : \A f \in h : e[1] < f[1] \/ (e[1] = f[1] /\ e[2] <= f[2])

\* the test of line 64 left out
NotReachedUnchecked(length, t) == FALSE

\* line 64
NotReached(length, t) == t \notin DOMAIN length

\* line 61 returning no length
TrivialResultEmpty(s) == [lengths |-> <<>>, paths |-> <<<<s>>>>]

\* line 61
TrivialResult(s) == [lengths |-> <<0>>, paths |-> <<<<s>>>>]

\* line 73 as range(1, k + 1): one rank too many
RankEntryInclusive(ii, kk, p) ==
  IF ii <= kk THEN (IF Len(p) - 1 > 0 THEN "prune" ELSE "pop") ELSE "done"

\* lines 73-74: where the call goes when rank ii is next and p was accepted last
RankEntry(ii, kk, p) ==
  IF ii < kk THEN (IF Len(p) - 1 > 0 THEN "prune" ELSE "pop") ELSE "done"

\* ------------------------------------------------------------- the call
Graphs(dir, ws) ==
  IF dir THEN UNION {[E -> ws] : E \in SUBSET EdgeSlots}
  ELSE {Symmetric(g) : g \in UNION {[E -> ws] : E \in SUBSET ForwardSlots}}

InitWith(ws) ==
  /\ directed \in BOOLEAN
  /\ dictView \in (IF directed THEN BOOLEAN ELSE {FALSE})
  /\ G \in Graphs(directed, ws)
  /\ G0 = G
  /\ source = 1
  /\ target \in {1, 4}
  /\ k \in 1..MaxK
  /\ pc = "call"
  /\ exc = "none"
  /\ lengths = <<>>
  /\ paths = <<>>
  /\ c = 0
  /\ B = {}
  /\ G_original = <<>>
  /\ i = 0
  /\ j = 0
  /\ edges_removed = <<>>
  /\ other = <<"call", "none", <<>>, <<>>, 0, {}, <<>>, 0, 0, <<>>>>
  /\ interleaved = FALSE

Init == InitWith(Weights)

InitBad == InitWith(BadWeights)

inputs == <<directed, dictView, source, target, k, G0>>

\* the state local to one call
locals == <<pc, exc, lengths, paths, c, B, G_original, i, j, edges_removed>>

suspended == <<other, interleaved>>

Raise(e) ==
  /\ pc' = "raised"
  /\ exc' = e

\* lines 60-71, and the entry into the first rank (line 73)
Call ==
  /\ pc = "call"
  /\ IF source = target
     THEN /\ lengths' = TrivialResult(source).lengths
          /\ paths' = TrivialResult(source).paths
          /\ pc' = "done"
          /\ UNCHANGED <<exc, G_original, i>>
     ELSE LET r == single_source_dijkstra(G, source, target)
          IN IF r.err
             THEN Raise("ValueError") /\ UNCHANGED <<lengths, paths, G_original, i>>
             ELSE IF NotReached(r.dist, target)
             THEN Raise("NoPath") /\ UNCHANGED <<lengths, paths, G_original, i>>
             ELSE IF target \notin DOMAIN r.dist
             THEN Raise("KeyError") /\ UNCHANGED <<lengths, paths, G_original, i>>
             ELSE /\ lengths' = <<r.dist[target]>>
                  /\ paths' = <<r.paths[target]>>
                  /\ G_original' = G
                  /\ i' = 1
                  /\ pc' = RankEntry(1, k, r.paths[target])
                  /\ exc' = exc
  /\ UNCHANGED <<G, inputs, suspended, c, B, j, edges_removed>>

\* lines 74-111: one spur iteration's pruning
PruneStep ==
  /\ pc = "prune"
  /\ LET a == Prune(G, directed, dictView, paths, j)
     IN /\ G' = a.g
        /\ edges_removed' = a.removed
        /\ IF a.exc = "none" THEN pc' = "search" /\ exc' = exc ELSE Raise(a.exc)
  /\ UNCHANGED <<inputs, suspended, lengths, paths, c, B, G_original, i, j>>

\* lines 113-117: the spur search and the push of the candidate
SearchStep ==
  /\ pc = "search"
  /\ LET root_path == SubSeq(Last(paths), 1, j + 1)
         spur_node == Last(paths)[j + 1]
         r == single_source_dijkstra(G, spur_node, target)
     IN IF r.err
        THEN Raise("ValueError") /\ UNCHANGED <<B, c>>
        ELSE IF target \in DOMAIN r.paths /\ r.paths[target] # <<>>
        THEN IF target \notin DOMAIN r.dist
                  \/ \E n \in 1..(Len(root_path) - 1) :
                        <<root_path[n], root_path[n + 1]>> \notin DOMAIN G_original
             THEN Raise("KeyError") /\ UNCHANGED <<B, c>>
             ELSE /\ B' = B \cup
                       {<<get_path_length(G_original, root_path) + r.dist[target], c,
                          SubSeq(root_path, 1, Len(root_path) - 1) \o r.paths[target]>>}
                  /\ c' = c + 1
                  /\ pc' = "restore"
                  /\ exc' = exc
        ELSE /\ pc' = "restore"
             /\ UNCHANGED <<B, c, exc>>
  /\ UNCHANGED <<G, inputs, suspended, lengths, paths, G_original, i, j, edges_removed>>

\* lines 119-121, and the step of the loop of line 74
RestoreStep ==
  /\ pc = "restore"
  /\ G' = RestoreEdges(G, directed, edges_removed)
  /\ IF j + 1 < Len(Last(paths)) - 1
     THEN j' = j + 1 /\ pc' = "prune"
     ELSE j' = j /\ pc' = "pop"
  /\ UNCHANGED <<inputs, suspended, exc, lengths, paths, c, B, G_original, i, edges_removed>>

\* lines 123-130, and the step of the loop of line 73
PopStep ==
  /\ pc = "pop"
  /\ IF B # {}
     THEN LET e == HeapMin(B)
          IN /\ B' = B \ {e}
             /\ lengths' = Append(lengths, e[1])
             /\ paths' = Append(paths, e[3])
             /\ i' = i + 1
             /\ j' = 0
             /\ pc' = RankEntry(i + 1, k, e[3])
     ELSE /\ pc' = "done"
          /\ UNCHANGED <<B, lengths, paths, i, j>>
  /\ UNCHANGED <<G, inputs, suspended, exc, c, G_original, edges_removed>>

Next == Call \/ PruneStep \/ SearchStep \/ RestoreStep \/ PopStep

Spec == Init /\ [][Next]_vars

\* the position of an unfinished call moves on
Advance ==
  /\ pc \notin {"done", "raised"}
  /\ pc' \in {"prune", "search", "restore", "pop", "done", "raised"}

\* the call runs synchronously, with no suspension point: an unfinished call
\* takes its next step (every step of Next moves the position, see C20_Progress)
SpecFair == Spec /\ WF_pc(Advance)

\* the interpreter suspends the running call and resumes the other one; the
\* graph object is shared, everything else is local to a call
Switch ==
  /\ other[1] \notin {"done", "raised"}
  /\ other' = locals
  /\ interleaved' = (interleaved \/ pc \in {"search", "restore"})
  /\ pc' = other[1]
  /\ exc' = other[2]
  /\ lengths' = other[3]
  /\ paths' = other[4]
  /\ c' = other[5]
  /\ B' = other[6]
  /\ G_original' = other[7]
  /\ i' = other[8]
  /\ j' = other[9]
  /\ edges_removed' = other[10]
  /\ UNCHANGED <<G, inputs>>

\* two calls for the second shortest path, with the same arguments, on one
\* undirected graph object
InitTwo == Init /\ ~directed /\ k = 2 /\ source # target

NextTwo == Next \/ Switch

SpecTwo == InitTwo /\ [][NextTwo]_vars

\* the same call on malformed input (a negative edge weight)
SpecBad == InitBad /\ [][Next]_vars

\* ------------------------------------------------------- reference notions
Range(s) == {s[n] : n \in 1..Len(s)}

IsPathOf(g, p) == \A n \in 1..(Len(p) - 1) : <<p[n], p[n + 1]>> \in DOMAIN g

Loopless(p) == \A a, b \in 1..Len(p) : p[a] = p[b] => a = b

\* every loopless s -> t path of g, by exhaustive enumeration
LooplessPaths(g, s, t) ==
  {p \in UNION {[1..n -> Nodes] : n \in 1..Cardinality(Nodes)} :
     /\ p[1] = s
     /\ p[Len(p)] = t
     /\ Loopless(p)
     /\ IsPathOf(g, p)}

RECURSIVE PathWeight(_, _)
PathWeight(g, p) ==
  IF Len(p) < 2 THEN 0
  ELSE g[<<p[1], p[2]>>] + PathWeight(g, SubSeq(p, 2, Len(p)))

\* the nodes reached from the nodes S along edges of g
RECURSIVE ReachedFrom(_, _)
ReachedFrom(g, S) ==
  LET T == S \cup {e[2] : e \in {d \in DOMAIN g : d[1] \in S}}
  IN IF T = S THEN S ELSE ReachedFrom(g, T)

Reachable(g, s, t) == t \in ReachedFrom(g, {s})

Returned == pc = "done"

\* L is the n-th smallest of the weights of the paths in P
IsNthSmallest(g, P, L, n) ==
  /\ Cardinality({p \in P : PathWeight(g, p) < L}) < n
  /\ n <= Cardinality({p \in P : PathWeight(g, p) <= L})

\* ------------------------------------------------------------------ claims
\* C1: on return with source # target, lengths[n] is the n-th smallest weight
\* among all loopless source -> target paths of the caller's graph, for every
\* returned index n.
C1_KShortestLengths ==
  (Returned /\ source # target) =>
     \A n \in 1..Len(lengths) :
        IsNthSmallest(G0, LooplessPaths(G0, source, target), lengths[n], n)

\* C2: the paths returned by one call are pairwise distinct node sequences.
C2_PathsDistinct ==
  Returned => \A a, b \in 1..Len(paths) : paths[a] = paths[b] => a = b

\* C3: on return with k at least the number N of loopless source -> target
\* paths, exactly N results are returned and they are all those paths.
C3_AllPathsWhenKLarge ==
  (Returned /\ source # target
     /\ k >= Cardinality(LooplessPaths(G0, source, target))) =>
     /\ Len(paths) = Cardinality(LooplessPaths(G0, source, target))
     /\ Range(paths) = LooplessPaths(G0, source, target)

\* C4: the accepted lengths are non-decreasing: no candidate popped at a later
\* rank is shorter than a path accepted at an earlier rank.
C4_LengthsNonDecreasing ==
  \A n \in 1..(Len(lengths) - 1) : lengths[n] <= lengths[n + 1]

C4_Witness ==
  Returned /\ Len(lengths) >= 3 /\ lengths[1] < lengths[2] /\ lengths[2] < lengths[3]

\* C5: every accepted path starts at source, ends at target, follows edges of
\* the caller's graph and repeats no node.
C5_PathsWellFormed ==
  \A n \in 1..Len(paths) :
     /\ paths[n][1] = source
     /\ Last(paths[n]) = target
     /\ IsPathOf(G0, paths[n])
     /\ Loopless(paths[n])

C5_Witness ==
  /\ Returned
  /\ \E n \in 2..Len(paths) :
        /\ Len(paths[n]) = 4
        /\ \E q \in DOMAIN G0 : q[1] = paths[n][3] /\ q[2] = paths[n][2]

\* C6: every reported length is the sum of the caller's graph's edge weights
\* along the reported path.
C6_LengthIsPathWeight ==
  /\ Len(lengths) = Len(paths)
  /\ \A n \in 1..Len(paths) :
        IsPathOf(G0, paths[n]) /\ lengths[n] = PathWeight(G0, paths[n])

C6_Witness ==
  /\ Returned
  /\ \E n \in 2..Len(paths) : Len(paths[n]) = 4 /\ lengths[n] = 2

\* C7: on a normal return the caller's graph has the edges and weights it had
\* when the call started.
C7_GraphRestoredOnReturn == Returned => G = G0

C7_Witness == Returned /\ Len(paths) >= 3 /\ ~directed

\* C8: an unreachable target (source # target) ends the call in NoPath with no
\* result, no edge pruned and no candidate pushed.
C8_NoPathBeforeSearch ==
  (source # target /\ ~Reachable(G0, source, target) /\ pc # "call") =>
     /\ pc = "raised"
     /\ exc = "NoPath"
     /\ lengths = <<>>
     /\ paths = <<>>
     /\ G = G0
     /\ edges_removed = <<>>
     /\ B = {}
     /\ c = 0

C8_Witness ==
  pc = "raised" /\ exc = "NoPath" /\ Succ(G0, source) # {} /\ Pred(G0, target) # {}

\* C9: when the oracle raises between pruning and restoring, the pruned edges
\* are restored: the graph is the caller's graph on that exit as well.
C9_RestoredWhenOracleRaises ==
  (pc = "raised" /\ exc = "ValueError") => G = G0

\* C10: with source = target the call returns ([0], [[source]]) at once: no
\* search, no pruned edge, no candidate.
C10_SourceIsTarget ==
  (source = target /\ pc # "call") =>
     /\ Returned
     /\ exc = "none"
     /\ lengths = <<0>>
     /\ paths = <<<<source>>>>
     /\ G = G0
     /\ G_original = <<>>
     /\ edges_removed = <<>>
     /\ B = {}
     /\ c = 0
     /\ i = 0

C10_Witness == source = target /\ Returned /\ k > 1 /\ Succ(G0, source) # {}

\* the least weight of a path in the non-empty set P of paths of g
MinWeight(g, P) ==
  LET q == CHOOSE p \in P : \A r \in P : PathWeight(g, p) <= PathWeight(g, r)
  IN PathWeight(g, q)

\* C11: with the target reachable, lengths[1] is the least source -> target
\* distance of the caller's graph and paths[1] is a path of that weight.
C11_FirstIsShortest ==
  (source # target /\ pc \notin {"call", "raised"}) =>
     /\ Len(lengths) >= 1
     /\ Len(paths) >= 1
     /\ paths[1] \in LooplessPaths(G0, source, target)
     /\ PathWeight(G0, paths[1]) = lengths[1]
     /\ lengths[1] = MinWeight(G0, LooplessPaths(G0, source, target))

C11_Witness ==
  /\ Returned
  /\ source # target
  /\ Len(paths[1]) = 4
  /\ \E p \in LooplessPaths(G0, source, target) :
        Len(p) < 4 /\ PathWeight(G0, p) > lengths[1]

\* C12: lengths and paths have one size n, 1 <= n <= k once the first result is
\* in; a pop from the empty heap ends the call with the results accepted so
\* far and no error.
C12_Sizes ==
  /\ Len(lengths) = Len(paths)
  /\ Len(lengths) <= k
  /\ pc \notin {"call", "raised"} => Len(lengths) >= 1
  /\ (Returned /\ source # target) =>
        /\ exc = "none"
        /\ Len(lengths) = i
        /\ Len(lengths) < k => B = {}

C12_EmptyHeapStops ==
  (pc = "pop" /\ B = {}) =>
     /\ pc' = "done"
     /\ exc' = "none"
     /\ lengths' = lengths
     /\ paths' = paths
     /\ Len(lengths') = i

C12_SizesAndEarlyStop == []C12_Sizes /\ [][C12_EmptyHeapStops]_vars

C12_Witness == Returned /\ Len(lengths) >= 2 /\ Len(lengths) < k /\ B = {}

\* C13: no path is pushed into the heap twice in one call: no two waiting
\* candidates are the same path and no waiting candidate is an accepted path.
C13_NoPathPushedTwice ==
  /\ \A e, f \in B : e[3] = f[3] => e = f
  /\ \A e \in B : e[3] \notin Range(paths)

\* the ordered pairs the store holds for the edge (u, v)
StoredPairs(dir, u, v) == IF dir THEN {<<u, v>>} ELSE {<<u, v>>, <<v, u>>}

RemovedPairs ==
  UNION {StoredPairs(directed, edges_removed[n][1], edges_removed[n][2]) :
           n \in 1..Len(edges_removed)}

\* C14: at the start of every spur iteration and at every pop the graph is the
\* caller's graph; between pruning and restoring the recorded edges are
\* exactly the missing ones, each recorded once with its original weight.
C14_RestoredBetweenSpurs ==
  /\ pc \in {"prune", "pop"} => G = G0
  /\ pc \in {"search", "restore"} =>
        /\ \A a, b \in 1..Len(edges_removed) :
              StoredPairs(directed, edges_removed[a][1], edges_removed[a][2])
                 \cap StoredPairs(directed, edges_removed[b][1], edges_removed[b][2]) # {}
              => a = b
        /\ \A n \in 1..Len(edges_removed) :
              /\ <<edges_removed[n][1], edges_removed[n][2]>> \in DOMAIN G0
              /\ G0[<<edges_removed[n][1], edges_removed[n][2]>>] = edges_removed[n][3]
        /\ G = Drop(G0, RemovedPairs)

C14_Witness ==
  pc = "pop" /\ B = {} /\ j >= 1 /\ Len(edges_removed) >= 3
     /\ \E n \in 1..Len(edges_removed) : edges_removed[n][3] = 0

\* the root nodes before the spur node of the running spur iteration
InteriorNodes == {Last(paths)[n] : n \in 1..j}

\* the deviation edges of the accepted paths that share the root path
PrefixPairs ==
  UNION {StoredPairs(directed, paths[n][j + 1], paths[n][j + 2]) :
           n \in {m \in 1..Len(paths) :
                    /\ Len(paths[m]) > j + 1
                    /\ SubSeq(paths[m], 1, j + 1) = SubSeq(Last(paths), 1, j + 1)}}

InteriorPairs ==
  {e \in DOMAIN G0 : e[1] \in InteriorNodes \/ e[2] \in InteriorNodes}

\* C15: during the spur search the graph is the caller's graph less the
\* deviation edges of the accepted paths sharing the root and less every edge
\* at a root node before the spur node; nothing else is missing.
C15_PrunedGraphDuringSearch ==
  pc = "search" => G = Drop(G0, PrefixPairs \cup InteriorPairs)

C15_Witness ==
  /\ pc = "search"
  /\ directed
  /\ j >= 1
  /\ \E e \in InteriorPairs :
        \A n \in 1..(Len(Last(paths)) - 1) : e # <<Last(paths)[n], Last(paths)[n + 1]>>
  /\ \E n \in 1..Len(paths) :
        /\ paths[n] # Last(paths)
        /\ Len(paths[n]) > j + 1
        /\ SubSeq(paths[n], 1, j + 1) = SubSeq(Last(paths), 1, j + 1)

\* (l1, n1) comes before (l2, n2) in the heap's order
HeapBefore(e, f) == e[1] < f[1] \/ (e[1] = f[1] /\ e[2] <= f[2])

\* C16: ids are unique and below the counter; a push adds one candidate with
\* the counter's value and removes none; a pop accepts the waiting candidate
\* least in (length, id) among all pushed and not yet popped.
C16_IdsUnique ==
  /\ \A e, f \in B : e[2] = f[2] => e = f
  /\ \A e \in B : e[2] < c

C16_PushAndPop ==
  /\ pc # "pop" =>
        /\ B \subseteq B'
        /\ \A e \in B' \ B : e[2] = c /\ c' = c + 1 /\ B' = B \cup {e}
  /\ (pc = "pop" /\ B # {}) =>
        \E e \in B :
           /\ \A f \in B : HeapBefore(e, f)
           /\ B' = B \ {e}
           /\ lengths' = Append(lengths, e[1])
           /\ paths' = Append(paths, e[3])

C16_HeapOrder == []C16_IdsUnique /\ [][C16_PushAndPop]_vars

C16_Witness ==
  /\ pc = "pop"
  /\ i >= 2
  /\ \E e, f \in B :
        /\ e[2] < f[2]
        /\ e[1] = f[1]
        /\ \A g \in B : e[1] <= g[1]
        /\ e[3] # f[3]

\* C17: NoPath is the only exception a call on valid input ends in.
C17_OnlyNoPath == pc = "raised" => exc = "NoPath"

\* C18: a pushed candidate is, when pushed, a loopless source -> target path
\* of the caller's graph that keeps the root path, leaves the spur node by an
\* edge no accepted path with that root uses, and is no accepted path.
C18_PushedCandidate ==
  \A e \in B' \ B :
     /\ e[3][1] = source
     /\ Last(e[3]) = target
     /\ IsPathOf(G0, e[3])
     /\ Loopless(e[3])
     /\ Len(e[3]) > j + 1
     /\ SubSeq(e[3], 1, j + 1) = SubSeq(Last(paths), 1, j + 1)
     /\ \A n \in 1..Len(paths) :
           /\ e[3] # paths[n]
           /\ (Len(paths[n]) > j + 1 /\ SubSeq(paths[n], 1, j + 1) = SubSeq(e[3], 1, j + 1))
                 => paths[n][j + 2] # e[3][j + 2]

C18_CandidatesAreNew == [][C18_PushedCandidate]_vars

C18_Witness ==
  /\ pc = "restore"
  /\ j >= 1
  /\ Len(paths) >= 2
  /\ \E e \in B : e[2] = c - 1 /\ Len(e[3]) = 4
  /\ \E n \in 1..(Len(paths) - 1) :
        SubSeq(paths[n], 1, j + 1) = SubSeq(Last(paths), 1, j + 1)

\* steps still ahead of the position in the rank, and of the call as a whole
RankSteps ==
  3 * (Len(Last(paths)) - 2 - j)
    + (CASE pc = "prune" -> 3 [] pc = "search" -> 2 [] pc = "restore" -> 1 [] OTHER -> 0)

RankBudget == 3 * Cardinality(Nodes) + 1

StepsLeft ==
  CASE pc = "call" -> 1 + (MaxK + 1) * RankBudget
    [] pc \in {"done", "raised"} -> 0
    [] OTHER -> 1 + (k - i) * RankBudget + RankSteps

\* inside the loops: rank i is one of 1..k-1, the spur index one of
\* 0..len(last accepted)-2, and the spur node is not the target
C20_LoopBounds ==
  pc \in {"prune", "search", "restore", "pop"} =>
     /\ i \in 1..(k - 1)
     /\ i = Len(paths)
     /\ j \in 0..(Len(Last(paths)) - 2)
     /\ Last(paths)[j + 1] # target

C20_Progress ==
  /\ <<Advance>>_pc
  /\ StepsLeft' < StepsLeft
  /\ StepsLeft' >= 0
  /\ pc = "restore" => (pc' = "prune" /\ j' = j + 1) \/ (pc' = "pop" /\ j' = j)

C20_BoundedLoops == []C20_LoopBounds /\ [][C20_Progress]_vars

C20_Ends == <>(pc \in {"done", "raised"})

C20_EndsInResultOrNoPath == <>(pc = "done" \/ (pc = "raised" /\ exc = "NoPath"))

\* C20: the call ends, in results or in NoPath; the rank loop runs at most
\* k-1 times, a rank has at most len(last accepted)-1 spur iterations, and the
\* target is never the spur node.
C20_Terminates == C20_BoundedLoops /\ C20_EndsInResultOrNoPath

\* the edges a call at position p holds pruned, recorded in er
Pending(p, er) ==
  IF p \in {"search", "restore"}
  THEN UNION {StoredPairs(directed, er[n][1], er[n][2]) : n \in 1..Len(er)}
  ELSE {}

BothEnded == pc \in {"done", "raised"} /\ other[1] \in {"done", "raised"}

Outcome == <<exc, lengths, paths>>

OtherOutcome == <<other[2], other[3], other[4]>>

\* C19: two calls on one graph object share the pruning: the graph misses
\* what either call holds pruned, so a spur search sees the other call's
\* pruning.  Calls that were never suspended between pruning and restoring
\* end in one and the same outcome; when the two outcomes differ, one call
\* was suspended there.
C19_UnsafeOnlyWhenInterleaved ==
  /\ G = Drop(G0, Pending(pc, edges_removed) \cup Pending(other[1], other[10]))
  /\ (BothEnded /\ ~interleaved) => (Outcome = OtherOutcome /\ G = G0)

C19_Witness ==
  /\ BothEnded
  /\ interleaved
  /\ G = G0
  /\ exc = "none"
  /\ other[2] = "none"
  /\ Outcome # OtherOutcome
  /\ lengths # other[3]

\* a spur search running on a graph that misses an edge the other call pruned
C19_SearchSeesOtherPruning ==
  /\ pc = "search"
  /\ Pending(other[1], other[10]) \ Pending(pc, edges_removed) # {}

====
